---------------------------- MODULE Spec2Model ----------------------------
(***************************************************************************)
(* Model of crates/life/src/main.rs: the chunked Game of Life engine       *)
(* (Universe, its action queue and step executor), the run loop around it  *)
(* and the terminal mode owned by TermRender.                              *)
(*                                                                         *)
(* Rust's is_alive: [bool; 2] is the pair <<current, next>>: is_alive[0]   *)
(* is component 1 and is_alive[1] is component 2 of the pair.              *)
(***************************************************************************)
EXTENDS Integers, Sequences, FiniteSets, TLC

VARIABLES
  chunks,      \* Universe.chunks: chunk coordinate -> Chunk
  actions,     \* Universe.actions: the VecDeque of Action, front first
  auto,        \* Universe.auto
  generation,  \* Universe.generation
  vx, vy,      \* TermRender.vx / TermRender.vy (viewport origin)
  raw,         \* terminal raw mode is enabled
  alt,         \* terminal is on the alternate screen
  pc,          \* position of the program (main / run / step / execute_actions)
  caller,      \* who called step(): "timer" (run) or "key" (handle_event), else "none"
  result,      \* how the program ended: "none", "ok", "err", "panic"
  seed,        \* which initial configuration main installs
  keys,        \* number of key events handled so far
  pre,         \* history: is_alive[0] of every chunk when the running step() began
  prekeys,     \* history: the keys of the chunk map when the running step() began
  dispatched,  \* history: grid action tag -> dispatches of it by the drain loop in this step
  evaluated,   \* history: chunk key -> per cell, evaluations of the rule in this step
  swaps,       \* history: number of times the buffer swap of execute_actions has run
  game         \* the older variant (main_.rs): a call of Game::check_neighbours

vars == <<chunks, actions, auto, generation, vx, vy, raw, alt, pc, caller,
          result, seed, keys, pre, prekeys, dispatched, evaluated, swaps, game>>

---------------------------------------------------------------------------
(* Program constants *)

CHUNK_SIZE == 8

CHUNK_SIZE_SQR == CHUNK_SIZE * CHUNK_SIZE

CHUNK_SIZE_I32 == CHUNK_SIZE

OFFSETS == << <<-1, -1>>, <<0, -1>>, <<1, -1>>, <<-1, 0>>,
              <<1, 0>>, <<-1, 1>>, <<0, 1>>, <<1, 1>> >>

---------------------------------------------------------------------------
(* Bounds of the exploration *)

\* steps explored from the glider main() installs
GliderGens == 21

\* steps explored from the other grid configurations
SeedGens == 3

\* steps explored from the configurations on which key events are explored
RunGens == 3

\* key events explored in one run
MaxKeys == 2

\* largest chunk map for which step() is explored in every iteration order
MaxPermuted == 4

---------------------------------------------------------------------------
(* Cells and chunks *)

Indices == 0 .. (CHUNK_SIZE_SQR - 1)

\* Cell.x and Cell.y as Chunk::new sets them
CellX(i) == i % CHUNK_SIZE_I32

CellY(i) == i \div CHUNK_SIZE_I32

\* Chunk::new with the first cell alive
ChunkNew_first_cell_alive(x, y) ==
  [x |-> x, y |-> y,
   cells |-> [i \in Indices |-> IF i = 0 THEN <<TRUE, FALSE>> ELSE <<FALSE, FALSE>>]]

\* Chunk::new(x, y): every cell dead in both buffers
ChunkNew(x, y) ==
  [cells |-> [i \in Indices |-> <<FALSE, FALSE>>], x |-> x, y |-> y]

\* a chunk whose cells at the indices in live have is_alive[0] = true
ChunkWith(x, y, live) ==
  [cells |-> [i \in Indices |-> <<i \in live, FALSE>>], x |-> x, y |-> y]

\* Rust's integer division on i32 by a positive b: truncation toward zero,
\* which rounds a negative quotient up (written without -a, which i32::MIN
\* does not have)
TruncDiv(a, b) ==
  IF a >= 0 THEN a \div b ELSE (a + (b - 1)) \div b


---------------------------------------------------------------------------
(* Universe::check_neighbours *)

\* NeighbourChunk with the plain truncating division for every g
NeighbourChunk_truncating(g) == TruncDiv(g, CHUNK_SIZE_I32)

\* chunk coordinate owning the global coordinate g: the if/else around the
\* two truncating divisions
NeighbourChunk(g) ==
  IF g >= 0
    THEN TruncDiv(g, CHUNK_SIZE_I32)
    ELSE TruncDiv(g - (CHUNK_SIZE_I32 - 1), CHUNK_SIZE_I32)

\* local coordinate of g inside its chunk
NeighbourLocal(g) == g - NeighbourChunk(g) * CHUNK_SIZE_I32

\* n_idx of the cell at the global position (gx, gy)
NeighbourIdx(gx, gy) ==
  NeighbourLocal(gy) * CHUNK_SIZE_I32 + NeighbourLocal(gx)

\* NeighbourAlive reading is_alive[1], the buffer being written in this step
NeighbourAlive_reads_next(m, gx, gy) ==
  LET k == <<NeighbourChunk(gx), NeighbourChunk(gy)>>
  IN  IF k \in DOMAIN m THEN m[k].cells[NeighbourIdx(gx, gy)][2] ELSE FALSE

\* the body of the loop over OFFSETS: is the neighbour at (gx, gy) counted
NeighbourAlive(m, gx, gy) ==
  LET k == <<NeighbourChunk(gx), NeighbourChunk(gy)>>
  IN  IF k \in DOMAIN m
        THEN m[k].cells[NeighbourIdx(gx, gy)][1]
        ELSE FALSE

GlobalX(cx, idx) == cx * CHUNK_SIZE_I32 + CellX(idx)

GlobalY(cy, idx) == cy * CHUNK_SIZE_I32 + CellY(idx)

\* check_neighbours counting a neighbour that is alive in either buffer, so
\* that cells evaluated earlier in the step are seen with their new value
check_neighbours_either_buffer(m, cx, cy, idx) ==
  LET gx == GlobalX(cx, idx)
      gy == GlobalY(cy, idx)
      seen(i) ==
        LET nx == gx + OFFSETS[i][1]
            ny == gy + OFFSETS[i][2]
            k == <<NeighbourChunk(nx), NeighbourChunk(ny)>>
        IN  k \in DOMAIN m /\ (m[k].cells[NeighbourIdx(nx, ny)][1]
                                 \/ m[k].cells[NeighbourIdx(nx, ny)][2])
  IN  Cardinality({i \in 1 .. Len(OFFSETS) : seen(i)})

check_neighbours(m, cx, cy, idx) ==
  Cardinality({o \in 1 .. Len(OFFSETS) :
                 NeighbourAlive(m, GlobalX(cx, idx) + OFFSETS[o][1],
                                   GlobalY(cy, idx) + OFFSETS[o][2])})

---------------------------------------------------------------------------
(* Helpers of the executor *)

\* NextAlive with two neighbours treated like three
NextAlive_birth_on_two(neighbours, cur, nxt) ==
  IF neighbours < 2 \/ neighbours > 3 THEN FALSE ELSE TRUE

\* NextAlive where a cell with 2 live neighbours is written dead
NextAlive_two_dies(neighbours, cur, nxt) ==
  neighbours = 3

\* the value of is_alive[1] after CheckCellAt's if / else-if chain, given the
\* neighbour count, is_alive[0] and the value is_alive[1] had
NextAlive(neighbours, cur, nxt) ==
  IF neighbours < 2 \/ neighbours > 3 THEN FALSE
  ELSE IF neighbours = 3 THEN TRUE
  ELSE IF cur THEN TRUE ELSE nxt

\* WriteNext storing into is_alive[0], the buffer the neighbours are read from
WriteNext_in_place(m, k, idx, v) ==
  [m EXCEPT ![k].cells[idx][1] = v]

\* the assignment cells[idx].is_alive[1] = v of CheckCellAt
WriteNext(m, k, idx, v) ==
  [m EXCEPT ![k].cells[idx][2] = v]

\* HashMap::insert: the entry of k is set, replacing one that was there
Insert(m, k, c) ==
  [j \in (DOMAIN m) \cup {k} |-> IF j = k THEN c ELSE m[j]]

Reverse(s) == [i \in 1 .. Len(s) |-> s[Len(s) + 1 - i]]

\* Around with the four edge-sharing chunks only
Around_orthogonal(x, y) ==
  << <<x, y - 1>>, <<x - 1, y>>, <<x + 1, y>>, <<x, y + 1>> >>

\* the chunk coordinates around (x, y), in OFFSETS order
Around(x, y) ==
  [o \in 1 .. Len(OFFSETS) |-> <<x + OFFSETS[o][1], y + OFFSETS[o][2]>>]

\* Missing without the is_none() test: every coordinate around the chunk
Missing_unchecked(m, x, y) ==
  Around(x, y)

\* the coordinates CheckCellAt finds missing, in the order it meets them
Missing(m, x, y) ==
  SelectSeq(Around(x, y), LAMBDA k : k \notin DOMAIN m)

\* PushFrontNew asking for the evaluation of the missing chunks, not their creation
PushFrontNew_evaluate(q, ks) ==
  [i \in 1 .. Len(ks) |->
     [tag |-> "CheckCellAt", x |-> Reverse(ks)[i][1], y |-> Reverse(ks)[i][2],
      idx |-> 0]] \o q

\* the queue after push_front(NewChunkAt) for each coordinate of ks in turn
PushFrontNew(q, ks) ==
  [i \in 1 .. Len(ks) |->
     [tag |-> "NewChunkAt", x |-> Reverse(ks)[i][1], y |-> Reverse(ks)[i][2]]] \o q

\* SwapCells without the reset of is_alive[1]
SwapCells_no_reset(m) ==
  [k \in DOMAIN m |->
     [m[k] EXCEPT !.cells = [i \in Indices |-> <<m[k].cells[i][2], m[k].cells[i][2]>>]]]

\* the swap after the drain loop: is_alive[0] = is_alive[1]; is_alive[1] = false
SwapCells(m) ==
  [k \in DOMAIN m |->
     [m[k] EXCEPT !.cells = [i \in Indices |-> <<m[k].cells[i][2], FALSE>>]]]

\* lexicographic order on chunk coordinates
KeyLess(a, b) == a[1] < b[1] \/ (a[1] = b[1] /\ a[2] < b[2])

RECURSIVE SortedKeys(_)
SortedKeys(S) ==
  IF S = {} THEN << >>
  ELSE LET least == CHOOSE a \in S : \A b \in S \ {a} : KeyLess(a, b)
       IN  <<least>> \o SortedKeys(S \ {least})

\* a step() that always visits the origin chunk, also on an empty map
IterOrders_origin_on_empty(S) ==
  IF S = {} THEN {<< <<0, 0>> >>} ELSE {SortedKeys(S), Reverse(SortedKeys(S))}

\* every order of the keys in S
KeyOrders(S) ==
  {f \in [1 .. Cardinality(S) -> S] : \A i, j \in DOMAIN f : i # j => f[i] # f[j]}

\* HashMap iteration order is unspecified: the orders explored for the loop
\* over self.chunks.iter() in step() are all of them for a map of at most
\* MaxPermuted chunks, and two opposite ones for a larger map
IterOrders(S) ==
  IF Cardinality(S) <= MaxPermuted
    THEN KeyOrders(S)
    ELSE {SortedKeys(S), Reverse(SortedKeys(S))}

\* global positions of the cells whose is_alive[0] is set
LiveCells(m) ==
  UNION {{<<GlobalX(k[1], i), GlobalY(k[2], i)>> :
            i \in {j \in Indices : m[k].cells[j][1]}} : k \in DOMAIN m}

---------------------------------------------------------------------------
(* Initial configurations *)

Seeds == {"glider", "empty", "dead", "block", "blinker", "edge", "corner"}

\* the cells main() sets alive in chunk (0, 0)
GliderIdx ==
  {1 + 1 * CHUNK_SIZE, 3 + 2 * CHUNK_SIZE, 1 + 3 * CHUNK_SIZE,
   2 + 3 * CHUNK_SIZE, 3 + 3 * CHUNK_SIZE}

BlockIdx ==
  {3 + 3 * CHUNK_SIZE, 4 + 3 * CHUNK_SIZE, 3 + 4 * CHUNK_SIZE, 4 + 4 * CHUNK_SIZE}

BlinkerIdx == {2 + 3 * CHUNK_SIZE, 3 + 3 * CHUNK_SIZE, 4 + 3 * CHUNK_SIZE}

\* chunk coordinate -> indices of the live cells, per configuration:
\*   glider   what main() installs
\*   empty    Universe::new() alone, no chunk
\*   dead     one chunk, no live cell
\*   block    2x2 block inside chunk (0,0)
\*   blinker  horizontal line of 3 inside chunk (0,0)
\*   edge     horizontal line of 3 at global (-1,0),(0,0),(1,0)
\*   corner   2x2 block at global (-1,-1),(0,-1),(-1,0),(0,0), one cell per chunk
SeedLive(s) ==
  CASE s = "glider"  -> [k \in {<<0, 0>>} |-> GliderIdx]
    [] s = "empty"   -> [k \in {} |-> {}]
    [] s = "dead"    -> [k \in {<<0, 0>>} |-> {}]
    [] s = "block"   -> [k \in {<<0, 0>>} |-> BlockIdx]
    [] s = "blinker" -> [k \in {<<0, 0>>} |-> BlinkerIdx]
    [] s = "edge"    -> [k \in {<<-1, 0>>, <<0, 0>>} |->
                           IF k = <<0, 0>> THEN {0, 1} ELSE {CHUNK_SIZE - 1}]
    [] s = "corner"  -> [k \in {<<-1, -1>>, <<0, -1>>, <<-1, 0>>, <<0, 0>>} |->
                           {(IF k[1] < 0 THEN CHUNK_SIZE - 1 ELSE 0)
                            + (IF k[2] < 0 THEN CHUNK_SIZE - 1 ELSE 0) * CHUNK_SIZE}]

SeedChunks(s) ==
  [k \in DOMAIN SeedLive(s) |-> ChunkWith(k[1], k[2], SeedLive(s)[k])]

\* how many steps and key events are explored from a configuration
GenBudget(s) ==
  CASE s = "glider" -> GliderGens
    [] s \in {"empty", "dead"} -> RunGens
    [] OTHER -> SeedGens

KeyBudget(s) == IF s \in {"empty", "dead"} THEN MaxKeys ELSE 0

---------------------------------------------------------------------------
(* The record of what the drain loop has done in the running step *)

GridTags == {"NewChunkAt", "CheckChunkAt", "CheckCellAt"}

\* nothing dispatched yet
NoDispatch == [t \in GridTags |-> 0]

\* `while let Some(action) = actions.pop_front()`: one more dispatch of tag t
Dispatch(d, t) == [d EXCEPT ![t] = @ + 1]

\* no cell evaluated yet
NoEvaluation == [k \in {} |-> [n \in 1 .. CHUNK_SIZE_SQR |-> 0]]

\* CheckCellAt { x, y, idx } found its chunk: one more evaluation of cell idx
\* of chunk k
Evaluate(e, k, idx) ==
  IF k \in DOMAIN e
    THEN [e EXCEPT ![k][idx + 1] = @ + 1]
    ELSE e @@ (k :> [n \in 1 .. CHUNK_SIZE_SQR |-> IF n = idx + 1 THEN 1 ELSE 0])

---------------------------------------------------------------------------
(* The older variant of the engine, main_.rs (struct Game): one chunk is a  *)
(* row-major array of CHUNK_SIZE * CHUNK_SIZE cells with a single is_alive, *)
(* and the neighbours of a cell are found by linear index offsets.          *)

\* CHUNK_SIZE of main_.rs
GAME_CHUNK_SIZE == 32

GAME_CHUNK_SIZE_SQR == GAME_CHUNK_SIZE * GAME_CHUNK_SIZE

DIRECTIONS ==
  <<-GAME_CHUNK_SIZE - 1, -GAME_CHUNK_SIZE, -GAME_CHUNK_SIZE + 1, -1, 1,
    GAME_CHUNK_SIZE - 1, GAME_CHUNK_SIZE, GAME_CHUNK_SIZE + 1>>

\* Chunk::is_alive_at for a chunk whose live cells are the indices in live
is_alive_at(live, cell_idx) == cell_idx \in live

\* Game::check_neighbours(current_chunk, cell_idx): for each direction,
\* idx = cell_idx + direction is skipped when outside 0 .. CHUNK_SIZE_SQR - 1
\* and counted when the cell at idx is alive
Game_check_neighbours(live, cell_idx) ==
  Cardinality({d \in 1 .. Len(DIRECTIONS) :
                 LET idx == cell_idx + DIRECTIONS[d]
                 IN  /\ ~(idx < 0 \/ idx >= GAME_CHUNK_SIZE_SQR)
                     /\ is_alive_at(live, idx)})

\* no call of Game::check_neighbours is being made
NoGame == [pc |-> "idle", live |-> {}, cell_idx |-> 0, neighbours |-> 0]

---------------------------------------------------------------------------
(* The program: main, Universe::run, handle_event, step, execute_actions *)

\* before main() runs: the fields hold what Universe::new() will give them
Init ==
  /\ chunks = [k \in {} |-> ChunkNew(0, 0)]
  /\ actions = << >>
  /\ auto = FALSE
  /\ generation = 0
  /\ vx = 0
  /\ vy = 0
  /\ raw = FALSE
  /\ alt = FALSE
  /\ pc = "start"
  /\ caller = "none"
  /\ result = "none"
  /\ seed \in Seeds
  /\ keys = 0
  /\ pre = {}
  /\ prekeys = {}
  /\ dispatched = NoDispatch
  /\ evaluated = NoEvaluation
  /\ swaps = 0
  /\ game = NoGame

\* Universe::new() -> TermRender::new(): enable_raw_mode()?, then
\* execute(EnterAlternateScreen)?.execute(Clear)?, then the value is built.
\* failed_at names the call that returns Err ("none": all succeed).  An Err
\* leaves main() through `?` before any TermRender exists, so no Drop runs.
TermRenderNew ==
  /\ pc = "start"
  /\ \E failed_at \in {"none", "enable_raw_mode", "EnterAlternateScreen", "Clear"} :
       /\ raw' = (failed_at # "enable_raw_mode")
       /\ alt' = (failed_at \in {"none", "Clear"})
       /\ pc' = IF failed_at = "none" THEN "seed" ELSE "exit"
       /\ result' = IF failed_at = "none" THEN "none" ELSE "err"
  /\ UNCHANGED <<chunks, actions, auto, generation, vx, vy, caller, seed, game, keys, pre,
                 prekeys, dispatched, evaluated, swaps>>

\* main(): the seeded chunk is inserted, auto is set, run() is entered
Main ==
  /\ pc = "seed"
  /\ chunks' = SeedChunks(seed)
  /\ auto' = TRUE
  /\ pc' = "run_draw"
  /\ UNCHANGED <<actions, generation, vx, vy, raw, alt, caller, result, seed, game, keys,
                 pre, prekeys, dispatched, evaluated, swaps>>

\* step(): one CheckChunkAt per chunk is pushed to the back of the queue, then
\* execute_actions() is entered
StepBegin(who) ==
  /\ generation < GenBudget(seed)
  /\ \E order \in IterOrders(DOMAIN chunks) :
       actions' = actions \o
         [i \in 1 .. Len(order) |->
            [tag |-> "CheckChunkAt", x |-> order[i][1], y |-> order[i][2]]]
  /\ pre' = LiveCells(chunks)
  /\ prekeys' = DOMAIN chunks
  /\ dispatched' = NoDispatch
  /\ evaluated' = NoEvaluation
  /\ caller' = who
  /\ pc' = "drain"

\* run(): select! resolves on the delay
TimerFire ==
  /\ pc = "select"
  /\ auto => generation < GenBudget(seed)
  /\ pc' = "timer"
  /\ UNCHANGED <<chunks, actions, auto, generation, vx, vy, raw, alt, caller,
                 result, seed, game, keys, pre, prekeys, dispatched, evaluated, swaps>>

\* run(): the delay branch: step() only if self.auto
TimerBranch ==
  /\ pc = "timer"
  /\ IF auto
       THEN /\ StepBegin("timer")
            /\ UNCHANGED <<chunks, auto, generation, vx, vy, raw, alt, result, seed, game,
                           keys, swaps>>
       ELSE /\ pc' = "select"
            /\ UNCHANGED <<chunks, actions, auto, generation, vx, vy, raw, alt,
                           caller, result, seed, game, keys, pre, prekeys, dispatched, evaluated, swaps>>

KeyChars == {"q", "h", "l", "k", "j", "n", " ", "x"}

\* the Action handle_event pushes for a pan or mode key
KeyAction(ch) ==
  CASE ch = "h" -> [tag |-> "MoveLeft"]
    [] ch = "l" -> [tag |-> "MoveRight"]
    [] ch = "k" -> [tag |-> "MoveUp"]
    [] ch = "j" -> [tag |-> "MoveDown"]
    [] ch = " " -> [tag |-> "ChangeMode"]

\* run(): select! resolves on a key press; handle_event(event) runs
\* ("x" stands for every character handle_event ignores)
KeyPress ==
  /\ pc = "select"
  /\ keys < KeyBudget(seed)
  /\ keys' = keys + 1
  /\ \E ch \in KeyChars :
       CASE ch = "q" ->
              /\ pc' = "drop"
              /\ result' = "ok"
              /\ UNCHANGED <<actions, caller, pre, prekeys, dispatched, evaluated, swaps>>
         [] ch = "n" ->
              /\ StepBegin("key")
              /\ UNCHANGED result
         [] ch = "x" ->
              UNCHANGED <<actions, pc, caller, result, pre, prekeys, dispatched,
                          evaluated, swaps>>
         [] OTHER ->
              /\ actions' = Append(actions, KeyAction(ch))
              /\ UNCHANGED <<pc, caller, result, pre, prekeys, dispatched, evaluated,
                             swaps>>
  /\ UNCHANGED <<chunks, auto, generation, vx, vy, raw, alt, seed, game, swaps>>

\* run(): the event stream yields Some(Err(err)): panic!, which unwinds main()
InputError ==
  /\ pc = "select"
  /\ pc' = "drop"
  /\ result' = "panic"
  /\ UNCHANGED <<chunks, actions, auto, generation, vx, vy, raw, alt, caller,
                 seed, game, keys, pre, prekeys, dispatched, evaluated, swaps>>

---------------------------------------------------------------------------
(* execute_actions: one action per match arm of the drain loop *)

Draining(tag) ==
  /\ pc = "drain"
  /\ actions # << >>
  /\ Head(actions).tag = tag

NewChunkAt ==
  /\ Draining("NewChunkAt")
  /\ dispatched' = Dispatch(dispatched, Head(actions).tag)
  /\ LET a == Head(actions)
     IN  /\ chunks' = Insert(chunks, <<a.x, a.y>>, ChunkNew(a.x, a.y))
         /\ actions' = <<[tag |-> "CheckChunkAt", x |-> a.x, y |-> a.y]>> \o Tail(actions)
  /\ UNCHANGED <<auto, generation, vx, vy, raw, alt, pc, caller, result, seed, game, keys,
                 pre, prekeys, evaluated, swaps>>

CheckChunkAt ==
  /\ Draining("CheckChunkAt")
  /\ dispatched' = Dispatch(dispatched, Head(actions).tag)
  /\ LET a == Head(actions)
     IN  actions' =
           IF <<a.x, a.y>> \in DOMAIN chunks
             THEN Tail(actions) \o
                    [n \in 1 .. CHUNK_SIZE_SQR |->
                       [tag |-> "CheckCellAt", x |-> a.x, y |-> a.y, idx |-> n - 1]]
             ELSE <<[tag |-> "NewChunkAt", x |-> a.x, y |-> a.y]>> \o Tail(actions)
  /\ UNCHANGED <<chunks, auto, generation, vx, vy, raw, alt, pc, caller, result,
                 seed, game, keys, pre, prekeys, evaluated, swaps>>

\* CheckCellAt with the growth check outside the `if is_alive[0]`: any
\* evaluated cell, dead or alive, asks for the chunks missing around its chunk
CheckCellAt_grows_for_dead_cells ==
  /\ Draining("CheckCellAt")
  /\ dispatched' = Dispatch(dispatched, Head(actions).tag)
  /\ LET a == Head(actions)
         k == <<a.x, a.y>>
     IN  IF k \in DOMAIN chunks
           THEN LET cell == chunks[k].cells[a.idx]
                    neighbours == check_neighbours(chunks, a.x, a.y, a.idx)
                IN  /\ actions' = PushFrontNew(Tail(actions), Missing(chunks, a.x, a.y))
                    /\ chunks' =
                         WriteNext(chunks, k, a.idx,
                                   NextAlive(neighbours, cell[1], cell[2]))
                    /\ evaluated' = Evaluate(evaluated, k, a.idx)
           ELSE /\ actions' = Tail(actions)
                /\ UNCHANGED <<chunks, evaluated>>
  /\ UNCHANGED <<auto, generation, vx, vy, raw, alt, pc, caller, result, seed, game, keys,
                 pre, prekeys, swaps>>

CheckCellAt ==
  /\ Draining("CheckCellAt")
  /\ dispatched' = Dispatch(dispatched, Head(actions).tag)
  /\ LET a == Head(actions)
         k == <<a.x, a.y>>
     IN  IF k \in DOMAIN chunks
           THEN LET cell == chunks[k].cells[a.idx]
                    neighbours == check_neighbours(chunks, a.x, a.y, a.idx)
                IN  /\ actions' =
                         IF cell[1]
                           THEN PushFrontNew(Tail(actions), Missing(chunks, a.x, a.y))
                           ELSE Tail(actions)
                    /\ chunks' =
                         WriteNext(chunks, k, a.idx,
                                   NextAlive(neighbours, cell[1], cell[2]))
                    /\ evaluated' = Evaluate(evaluated, k, a.idx)
           ELSE /\ actions' = Tail(actions)
                /\ UNCHANGED <<chunks, evaluated>>
  /\ UNCHANGED <<auto, generation, vx, vy, raw, alt, pc, caller, result, seed, game, keys,
                 pre, prekeys, swaps>>

\* MoveLeft / MoveRight / MoveUp / MoveDown: render().increment_viewport(dx, dy)
Move ==
  /\ pc = "drain"
  /\ actions # << >>
  /\ LET t == Head(actions).tag
     IN  /\ t \in {"MoveLeft", "MoveRight", "MoveUp", "MoveDown"}
         /\ vx' = vx + (CASE t = "MoveLeft" -> -1 [] t = "MoveRight" -> 1 [] OTHER -> 0)
         /\ vy' = vy + (CASE t = "MoveUp" -> -1 [] t = "MoveDown" -> 1 [] OTHER -> 0)
  /\ actions' = Tail(actions)
  /\ UNCHANGED <<chunks, auto, generation, raw, alt, pc, caller, result, seed, game, keys,
                 pre, prekeys, dispatched, evaluated, swaps>>

ChangeMode ==
  /\ Draining("ChangeMode")
  /\ auto' = ~auto
  /\ actions' = Tail(actions)
  /\ UNCHANGED <<chunks, generation, vx, vy, raw, alt, pc, caller, result, seed, game, keys,
                 pre, prekeys, dispatched, evaluated, swaps>>

\* the queue is empty: the loop over every cell after the drain loop, then
\* execute_actions returns Ok and step() goes on to draw_frame
Swap ==
  /\ pc = "drain"
  /\ actions = << >>
  /\ chunks' = SwapCells(chunks)
  /\ swaps' = swaps + 1
  /\ pc' = "step_draw"
  /\ UNCHANGED <<actions, auto, generation, vx, vy, raw, alt, caller, result, seed, game,
                 keys, pre, prekeys, dispatched, evaluated>>

---------------------------------------------------------------------------
(* Rendering and the ways out of run() *)

\* DrawFrame with the increment placed before the `?` of draw_frame: a step
\* whose draw_frame fails is counted too
DrawFrame_counts_failed_step ==
  /\ pc \in {"run_draw", "step_draw"}
  /\ \E ok \in BOOLEAN :
       /\ pc' = IF ok THEN "select" ELSE "drop"
       /\ result' = IF ok THEN result
                    ELSE IF pc = "step_draw" /\ caller = "key" THEN "ok" ELSE "err"
  /\ generation' = IF pc = "step_draw" THEN generation + 1 ELSE generation
  /\ caller' = "none"
  /\ UNCHANGED <<chunks, actions, auto, vx, vy, raw, alt, seed, game, keys, pre, prekeys,
                 dispatched, evaluated, swaps>>

\* draw_frame as called from run() before the loop and from step(); it may
\* return Err (an I/O failure of the terminal).
\*  - in run(): Err leaves run() and main() through `?`
\*  - in step(): Ok is followed by generation += 1 and the return to the loop;
\*    Err leaves step() through `?` before the increment.  On the delay branch
\*    the error leaves run() through `?`; in handle_event it is turned into
\*    `true` by unwrap_or_else, the loop breaks and run() returns Ok.
DrawFrame ==
  /\ pc \in {"run_draw", "step_draw"}
  /\ \E ok \in BOOLEAN :
       IF ok
         THEN /\ pc' = "select"
              /\ generation' = IF pc = "step_draw" THEN generation + 1 ELSE generation
              /\ result' = result
         ELSE /\ pc' = "drop"
              /\ generation' = generation
              /\ result' = IF pc = "step_draw" /\ caller = "key" THEN "ok" ELSE "err"
  /\ caller' = "none"
  /\ UNCHANGED <<chunks, actions, auto, vx, vy, raw, alt, seed, game, keys, pre, prekeys,
                 dispatched, evaluated, swaps>>

\* main() is left (return or unwinding): universe is dropped, and with it the
\* TermRender: LeaveAlternateScreen and disable_raw_mode
Drop ==
  /\ pc = "drop"
  /\ alt' = FALSE
  /\ raw' = FALSE
  /\ pc' = "exit"
  /\ UNCHANGED <<chunks, actions, auto, generation, vx, vy, caller, result, seed, game, keys,
                 pre, prekeys, dispatched, evaluated, swaps>>

Next ==
  \/ TermRenderNew
  \/ Main
  \/ TimerFire
  \/ TimerBranch
  \/ KeyPress
  \/ InputError
  \/ NewChunkAt
  \/ CheckChunkAt
  \/ CheckCellAt
  \/ Move
  \/ ChangeMode
  \/ Swap
  \/ DrawFrame
  \/ Drop

Spec == Init /\ [][Next]_vars

\* Every step of the program but the two the environment decides: the expiry
\* of the delay (TimerFire) and the arrival of input (KeyPress, InputError)
Program ==
  \/ TermRenderNew
  \/ Main
  \/ TimerBranch
  \/ NewChunkAt
  \/ CheckChunkAt
  \/ CheckCellAt
  \/ Move
  \/ ChangeMode
  \/ Swap
  \/ DrawFrame
  \/ Drop

\* The program keeps running, and a delay that run() awaits with no input
\* arriving expires
FairSpec == Spec /\ WF_vars(Program) /\ WF_vars(TimerFire)

\* The creation path invoked a second time for a coordinate that already has
\* its chunk: before the first step, a NewChunkAt for an existing key is put
\* on the queue, the way handle_event puts its commands there
CreateAgain ==
  /\ pc = "select"
  /\ generation = 0
  /\ actions = << >>
  /\ \E k \in DOMAIN chunks :
       actions' = <<[tag |-> "NewChunkAt", x |-> k[1], y |-> k[2]]>>
  /\ UNCHANGED <<chunks, auto, generation, vx, vy, raw, alt, pc, caller, result,
                 seed, game, keys, pre, prekeys, dispatched, evaluated, swaps>>

NextCreate == Next \/ CreateAgain

SpecCreate == Init /\ [][NextCreate]_vars

---------------------------------------------------------------------------
(* Conway's rule on the unbounded grid, independent of chunks *)

Adjacent(c) ==
  {<<c[1] + dx, c[2] + dy>> : dx \in -1 .. 1, dy \in -1 .. 1} \ {c}

Conway(S) ==
  {c \in S \cup UNION {Adjacent(d) : d \in S} :
     LET n == Cardinality(Adjacent(c) \cap S)
     IN  n = 3 \/ (c \in S /\ n = 2)}

Translate(S, d) == {<<c[1] + d, c[2] + d>> : c \in S}

\* the action at the front of the queue while execute_actions drains it
Dispatching == pc = "drain" /\ actions # << >>

---------------------------------------------------------------------------
(* Claims *)

\* C1: one step() turns the set of live global cells into its Conway
\* successor: when the swap of a step has completed, the live cells are
\* exactly the cells that had 3 live neighbours at step start, or were alive
\* and had 2, wherever their chunks lie and whether or not the chunk existed.
C1_StepIsConway ==
  pc = "step_draw" => LiveCells(chunks) = Conway(pre)

\* C1 witness: from the line across the chunk boundary at x = 0, a step has
\* given birth to (0,-1), a cell at a negative coordinate whose chunk (0,-1)
\* was not in the map when the step began
C1_Witness ==
  /\ seed = "edge"
  /\ pc = "step_draw"
  /\ generation = 0
  /\ <<0, -1>> \in LiveCells(chunks)
  /\ <<0, -1>> \notin pre
  /\ <<0, -1>> \notin DOMAIN SeedChunks(seed)

\* C2: the coordinate translation of check_neighbours is floor division: for
\* the cell being evaluated, every neighbour coordinate g resolves to the
\* chunk c with c*N <= g < (c+1)*N and to a local coordinate in [0, N), and
\* c*N + local gives g back.
C2_FloorDivision ==
  (Dispatching /\ Head(actions).tag = "CheckCellAt") =>
    LET a == Head(actions)
    IN  \A o \in 1 .. Len(OFFSETS) :
          \A g \in {GlobalX(a.x, a.idx) + OFFSETS[o][1],
                    GlobalY(a.y, a.idx) + OFFSETS[o][2]} :
            /\ NeighbourChunk(g) * CHUNK_SIZE <= g
            /\ g < (NeighbourChunk(g) + 1) * CHUNK_SIZE
            /\ NeighbourLocal(g) \in 0 .. (CHUNK_SIZE - 1)
            /\ NeighbourChunk(g) * CHUNK_SIZE + NeighbourLocal(g) = g

\* C2 witness: cell 0 of chunk (-1,-1) is evaluated; its neighbours lie at the
\* global coordinates -9 and -8, and -1 resolves to chunk -1, local 7
C2_Witness ==
  /\ Dispatching
  /\ Head(actions) = [tag |-> "CheckCellAt", x |-> -1, y |-> -1, idx |-> 0]
  /\ NeighbourChunk(-9) = -2
  /\ NeighbourLocal(-9) = 7
  /\ NeighbourChunk(-1) = -1
  /\ NeighbourLocal(-1) = 7


\* C3: chunk creation is idempotent: a NewChunkAt dispatched for a coordinate
\* that is already a key of the map leaves the map, and every is_alive value
\* of that chunk, as they were.
C3_CreateIdempotent ==
  [][(Draining("NewChunkAt")
        /\ <<Head(actions).x, Head(actions).y>> \in DOMAIN chunks)
       => chunks' = chunks]_vars

\* a cell at a global position that touches a chunk boundary
AtBoundary(c) ==
  \/ c[1] % CHUNK_SIZE \in {0, CHUNK_SIZE - 1}
  \/ c[2] % CHUNK_SIZE \in {0, CHUNK_SIZE - 1}

\* C4: growth containment: in a step that began with no live cell adjacent to
\* a chunk boundary, no dispatched action adds a key to the chunk map.
C4_GrowthContained ==
  [][(pc = "drain" /\ \A c \in pre : ~AtBoundary(c))
       => DOMAIN chunks' = DOMAIN chunks]_vars

\* the seed of the claim, as global positions
GliderCells == {<<1, 1>>, <<3, 2>>, <<1, 3>>, <<2, 3>>, <<3, 3>>}

\* what the seed becomes after one step
FirstGlider == {<<1, 2>>, <<3, 2>>, <<2, 3>>, <<3, 3>>, <<2, 4>>}

\* C5 as stated: from the seed main() installs, between steps there are
\* always 5 live cells; after 4k steps the live set is the seed translated by
\* (k,k); and by then the chunk diagonally ahead of every cell of the previous
\* translate has been created.
C5_SeedTranslates ==
  (seed = "glider" /\ pc = "select") =>
    /\ Cardinality(LiveCells(chunks)) = 5
    /\ generation % 4 = 0 =>
         /\ LiveCells(chunks) = Translate(GliderCells, generation \div 4)
         /\ generation > 0 =>
              \A c \in Translate(GliderCells, (generation \div 4) - 1) :
                <<(c[1] \div CHUNK_SIZE) + 1, (c[2] \div CHUNK_SIZE) + 1>>
                  \in DOMAIN chunks

\* C5 amended: the seed main() installs becomes a glider with its first step:
\* between steps there are always 5 live cells; after 1 + 4k steps the live
\* set is the live set after 1 step translated by (k,k); and by then the
\* chunk diagonally ahead of every cell of the previous translate has been
\* created.
C5_GliderFromFirstStep ==
  (seed = "glider" /\ pc = "select") =>
    /\ Cardinality(LiveCells(chunks)) = 5
    /\ generation = 0 => LiveCells(chunks) = GliderCells
    /\ generation % 4 = 1 =>
         /\ LiveCells(chunks) = Translate(FirstGlider, generation \div 4)
         /\ generation > 1 =>
              \A c \in Translate(FirstGlider, (generation \div 4) - 1) :
                <<(c[1] \div CHUNK_SIZE) + 1, (c[2] \div CHUNK_SIZE) + 1>>
                  \in DOMAIN chunks

\* C5 witness: 21 steps on, the glider stands 5 cells down the diagonal, has
\* entered chunk (1,1), and chunk (2,2) exists
C5_Witness ==
  /\ seed = "glider"
  /\ pc = "select"
  /\ generation = 21
  /\ LiveCells(chunks) = Translate(FirstGlider, 5)
  /\ <<8, 8>> \in LiveCells(chunks)
  /\ <<2, 2>> \in DOMAIN chunks

\* a pan or mode command put on the queue by a key press is still there
Pending ==
  \E i \in 1 .. Len(actions) :
    actions[i].tag \in {"MoveLeft", "MoveRight", "MoveUp", "MoveDown", "ChangeMode"}

\* C6: a pan or mode command enqueued by a key press is eventually applied
\* (it leaves the queue), unless the program ends first; stated for the
\* commands enqueued while the explored run can still take a step.
C6_KeyCommandsApplied ==
  (Pending /\ generation < GenBudget(seed)) ~> (~Pending \/ pc \in {"drop", "exit"})

\* C7: create-before-evaluate: a CheckChunkAt or CheckCellAt at the front of
\* the queue being drained always names a coordinate that is a key of the map.
C7_CreateBeforeEvaluate ==
  (Dispatching /\ Head(actions).tag \in {"CheckChunkAt", "CheckCellAt"}) =>
    <<Head(actions).x, Head(actions).y>> \in DOMAIN chunks

\* C7 witness: the CheckChunkAt of chunk (1,1), which the first step of the
\* glider created, is about to be dispatched
C7_Witness ==
  /\ seed = "glider"
  /\ generation = 0
  /\ Dispatching
  /\ Head(actions) = [tag |-> "CheckChunkAt", x |-> 1, y |-> 1]
  /\ <<1, 1>> \notin DOMAIN SeedChunks(seed)
  /\ <<1, 1>> \in DOMAIN chunks

\* C8: synchronous update: an action dispatched from the queue keeps every
\* chunk of the map, changes no is_alive[0], and changes is_alive[1] of no
\* cell but the one a CheckCellAt evaluates.
C8_SynchronousUpdate ==
  [][Dispatching =>
       \A k \in DOMAIN chunks :
         /\ k \in DOMAIN chunks'
         /\ \A i \in Indices :
              /\ chunks'[k].cells[i][1] = chunks[k].cells[i][1]
              /\ chunks'[k].cells[i][2] # chunks[k].cells[i][2] =>
                   Head(actions) =
                     [tag |-> "CheckCellAt", x |-> k[1], y |-> k[2], idx |-> i]]_vars

\* C8 witness: in mid-drain, after chunks were created, a dead cell has
\* is_alive[1] set and a live cell has it clear
C8_Witness ==
  /\ Dispatching
  /\ Cardinality(DOMAIN chunks) > Cardinality(DOMAIN SeedChunks(seed))
  /\ \E k \in DOMAIN chunks : \E i, j \in Indices :
       /\ chunks[k].cells[i] = <<FALSE, TRUE>>
       /\ chunks[k].cells[j] = <<TRUE, FALSE>>
       /\ \E n \in 1 .. Len(actions) :
            actions[n] = [tag |-> "CheckCellAt", x |-> k[1], y |-> k[2], idx |-> j]

\* C9: whenever draw_frame is called, in run() before the loop or in step(),
\* the queue is empty and no cell of any chunk has is_alive[1] set.
C9_RenderSeesWholeStep ==
  pc \in {"run_draw", "step_draw"} =>
    /\ actions = << >>
    /\ \A k \in DOMAIN chunks : \A i \in Indices : ~chunks[k].cells[i][2]

\* C9 witness: draw_frame is called by a step that left live cells
C9_Witness ==
  /\ pc = "step_draw"
  /\ generation >= 1
  /\ LiveCells(chunks) # {}
  /\ LiveCells(chunks) # pre

\* C10: when the program has ended, raw mode is disabled.
C10_RawModeReleased ==
  pc = "exit" => ~raw

\* C11: a draw_frame error during a step ends the run loop with an error
\* result of run(), whoever called step() (the timer branch or the 'n' key).
\* step_draw -> drop is the step's draw_frame returning Err.
C11_RenderErrorPropagates ==
  [][(pc = "step_draw" /\ pc' = "drop") => result' = "err"]_vars

C13_GenerationCounts ==
  /\ generation = 0
  /\ [][IF pc = "step_draw" /\ pc' = "select"
          THEN generation' = generation + 1
          ELSE generation' = generation]_vars

\* one step is counted, a pan and a mode toggle were handled and applied, and
\* the timer has fired with auto-run off
C13_Witness ==
  /\ generation = 1
  /\ keys = 2
  /\ vx # 0
  /\ ~auto
  /\ pc = "timer"

\* the horizontal line of 3 of the seeds "blinker" and "edge", and the vertical
\* line of 3 through the same centre
LineCentre == IF seed = "edge" THEN <<0, 0>> ELSE <<3, 3>>

HorizontalLine == {<<LineCentre[1] + d, LineCentre[2]>> : d \in {-1, 0, 1}}

VerticalLine == {<<LineCentre[1], LineCentre[2] + d>> : d \in {-1, 0, 1}}

\* C14: a horizontal line of 3 live cells oscillates with period 2: between
\* steps the live set is the original line after an even number of steps and
\* the vertical line through the same centre after an odd number.
C14_BlinkerPeriodTwo ==
  (seed \in {"blinker", "edge"} /\ pc = "select")
    => LiveCells(chunks) = IF generation % 2 = 0 THEN HorizontalLine ELSE VerticalLine

\* the line inside chunk (0,0) is horizontal again after 2 steps, having been
\* vertical after the first
C14_Witness ==
  /\ seed = "blinker"
  /\ pc = "select"
  /\ generation = 2
  /\ pre = VerticalLine
  /\ LiveCells(chunks) = HorizontalLine

\* the 2x2 block of the seed "block": local (3,3),(4,3),(3,4),(4,4) of chunk
\* (0,0), no cell on the rim of the chunk
BlockCells == {<<3, 3>>, <<4, 3>>, <<3, 4>>, <<4, 4>>}

\* C15: a 2x2 block away from any chunk boundary is a still life: once main()
\* has put it in the map, whatever the number of steps and wherever a step
\* stands, the set of live cells (is_alive[0]) is exactly the original four.
C15_BlockStillLife ==
  (seed = "block" /\ DOMAIN chunks # {}) => LiveCells(chunks) = BlockCells

\* three steps done (the chunks around (0,0) exist since the first) and the
\* four cells are the live set; each was re-evaluated in the last step
C15_Witness ==
  /\ seed = "block"
  /\ pc = "select"
  /\ generation = SeedGens
  /\ Cardinality(DOMAIN chunks) = 9
  /\ \A k \in DOMAIN chunks : \A n \in 1 .. CHUNK_SIZE_SQR : evaluated[k][n] = 1
  /\ LiveCells(chunks) = BlockCells

\* C16: only a live cell makes chunks appear.  While a step that began with
\* every cell dead is drained, the key set of the map does not change; and
\* the evaluation of a cell never inserts a chunk, while the value it writes
\* is the one for the number of live cells around it, a neighbour in an absent
\* chunk counting for nothing.
C16_OnlyLiveCellsMaterialize ==
  [][/\ (pc = "drain" /\ pre = {}) => DOMAIN chunks' = DOMAIN chunks
     /\ (Draining("CheckCellAt") /\ <<Head(actions).x, Head(actions).y>> \in DOMAIN chunks)
          => LET a == Head(actions)
                 k == <<a.x, a.y>>
                 g == <<GlobalX(a.x, a.idx), GlobalY(a.y, a.idx)>>
                 n == Cardinality(Adjacent(g) \cap pre)
             IN  /\ DOMAIN chunks' = DOMAIN chunks
                 /\ check_neighbours(chunks, a.x, a.y, a.idx) = n
                 /\ chunks'[k].cells[a.idx][2] = (n = 3 \/ (g \in pre /\ n = 2))]_vars

\* the second step over one all-dead chunk has evaluated its four corner
\* cells, whose neighbours lie in absent chunks, and the map still has one key
C16_Witness ==
  /\ seed = "dead"
  /\ pc = "step_draw"
  /\ generation = 1
  /\ pre = {}
  /\ DOMAIN chunks = {<<0, 0>>}
  /\ \A n \in {1, CHUNK_SIZE, CHUNK_SIZE_SQR - CHUNK_SIZE + 1, CHUNK_SIZE_SQR} :
       evaluated[<<0, 0>>][n] = 1

\* the chunks that held a live cell when the running step began, and the
\* chunk coordinates around them
LiveChunks == {<<NeighbourChunk(c[1]), NeighbourChunk(c[2])>> : c \in pre}

AroundLive ==
  UNION {{Around(k[1], k[2])[i] : i \in 1 .. Len(OFFSETS)} : k \in LiveChunks}

\* dispatches of grid actions in the running step, and what a step can need:
\* per chunk of the map one CheckChunkAt and one CheckCellAt per cell, and per
\* chunk it can create one NewChunkAt more
GridTotal(d) == d["NewChunkAt"] + d["CheckChunkAt"] + d["CheckCellAt"]

DrainBound ==
  (CHUNK_SIZE_SQR + 1) * Cardinality(prekeys)
    + (CHUNK_SIZE_SQR + 2) * Cardinality(AroundLive \ prekeys)

\* C17: the drain loop of execute_actions terminates, with an empty queue:
\* every iteration either dispatches a grid action, and a step dispatches no
\* more of them than a bound fixed when it began, or shortens the queue; the
\* loop is left only on an empty queue.  Every chunk a step creates is one of
\* the 8 chunks around a chunk that held a live cell when the step began, and
\* the evaluation of a cell of a chunk created in the step asks for no chunk.
C17_DrainTerminates ==
  [][pc = "drain"
       => /\ GridTotal(dispatched') <= DrainBound
          /\ IF pc' = "drain"
               THEN \/ GridTotal(dispatched') > GridTotal(dispatched)
                    \/ /\ dispatched' = dispatched
                       /\ Len(actions') < Len(actions)
               ELSE pc' = "step_draw" /\ actions = << >> /\ actions' = << >>
          /\ (DOMAIN chunks' \ DOMAIN chunks) \subseteq AroundLive
          /\ (Draining("CheckCellAt")
                /\ <<Head(actions).x, Head(actions).y>> \notin prekeys)
               => actions' = Tail(actions)]_vars

\* a step of the glider that created chunks (it began with fewer keys) has
\* drained its queue, every cell of every created chunk evaluated
C17_Witness ==
  /\ seed = "glider"
  /\ pc = "step_draw"
  /\ actions = << >>
  /\ DOMAIN chunks # prekeys
  /\ \A k \in DOMAIN chunks \ prekeys : evaluated[k][CHUNK_SIZE_SQR] = 1

\* the chunk map a step must produce from the keys and the live cells it began
\* with: a chunk for every key it had and for every coordinate around a chunk
\* that held a live cell, is_alive[0] being Conway's next generation and
\* is_alive[1] false
ExpectedChunks ==
  [k \in prekeys \cup AroundLive |->
     ChunkWith(k[1], k[2],
               {i \in Indices : <<GlobalX(k[1], i), GlobalY(k[2], i)>> \in Conway(pre)})]

\* C18: step() is deterministic with respect to the order in which the
\* initial CheckChunkAt actions are enqueued: the chunk map after the swap
\* (its key set and every cell's is_alive[0]) is a function of the chunk map
\* the step began with, the same for every iteration order explored.
C18_OrderIndependent ==
  pc = "step_draw" => chunks = ExpectedChunks

\* the block across four chunks, stepped in any of the 24 orders of its four
\* chunks, is the block again, in a map of 16 chunks
C18_Witness ==
  /\ seed = "corner"
  /\ pc = "step_draw"
  /\ prekeys = DOMAIN SeedLive("corner")
  /\ Cardinality(IterOrders(prekeys)) > 2
  /\ Cardinality(DOMAIN chunks) = 16
  /\ LiveCells(chunks) = pre

\* C19: when the queue of a step has emptied, every cell of every chunk in
\* the map, whether the chunk was there when the step began or was created in
\* it, has been evaluated by CheckCellAt exactly once, and no other cell has.
C19_EachCellOnce ==
  pc = "step_draw"
    => /\ DOMAIN evaluated = DOMAIN chunks
       /\ \A k \in DOMAIN chunks : \A n \in 1 .. CHUNK_SIZE_SQR : evaluated[k][n] = 1

\* a step over two chunks that created ten more: the cells of the old and of
\* the new chunks each have one evaluation
C19_Witness ==
  /\ seed = "edge"
  /\ pc = "step_draw"
  /\ Cardinality(prekeys) = 2
  /\ Cardinality(DOMAIN chunks \ prekeys) = 10
  /\ \A k \in DOMAIN chunks : evaluated[k][1] = 1 /\ evaluated[k][CHUNK_SIZE_SQR] = 1

\* C20: in step() the swap and the generation increment both come before
\* draw_frame: when draw_frame is called from step(), and from then on whether
\* it returns Ok or Err, generation equals the number of buffer swaps done.
C20_GenerationCountsSwaps ==
  pc # "drain" => generation = swaps

---------------------------------------------------------------------------
(* The i32 arithmetic of the coordinate resolution.  `+`, `-` and `*` on    *)
(* i32 panic on overflow in a build with overflow checks (the dev profile)  *)
(* and wrap modulo 2^32 in a build without them (the release profile).      *)

\* i32::MAX and i32::MIN
I32_MAX == 2147483647

I32_MIN == -I32_MAX - 1

\* a + b leaves the i32 range
AddOverflows(a, b) ==
  (b > 0 /\ a > I32_MAX - b) \/ (b < 0 /\ a < I32_MIN - b)

\* a + b modulo 2^32, as an i32
WrappingAdd(a, b) ==
  IF b > 0 /\ a > I32_MAX - b THEN I32_MIN + ((a - (I32_MAX - b)) - 1)
  ELSE IF b < 0 /\ a < I32_MIN - b THEN I32_MAX - (((I32_MIN - b) - a) - 1)
  ELSE a + b

\* a - b leaves the i32 range
SubOverflows(a, b) ==
  (b > 0 /\ a < I32_MIN + b) \/ (b < 0 /\ a > I32_MAX + b)

\* a - b modulo 2^32, as an i32
WrappingSub(a, b) ==
  IF b > 0 /\ a < I32_MIN + b THEN I32_MAX - (((I32_MIN + b) - a) - 1)
  ELSE IF b < 0 /\ a > I32_MAX + b THEN I32_MIN + ((a - 1) - (I32_MAX + b))
  ELSE a - b

\* a * b leaves the i32 range (b > 0)
MulOverflows(a, b) ==
  a > I32_MAX \div b \/ a < I32_MIN \div b

\* a * b modulo 2^32, as an i32 (b a power of two, as CHUNK_SIZE_I32 is)
WrappingMul(a, b) ==
  LET half == I32_MAX \div b + 1
      low == a % (2 * half)
  IN  IF low < half THEN low * b ELSE (low - 2 * half) * b

\* check_neighbours on one axis in i32: chunk coordinate c, local coordinate
\* l of the cell, offset d.  The values are the wrapped ones; overflow tells
\* whether an operation left the i32 range on the way.
ResolveAxis(c, l, d) ==
  LET base == WrappingMul(c, CHUNK_SIZE_I32)
      global == WrappingAdd(base, l)
      neighbour_global == WrappingAdd(global, d)
      shifted == IF neighbour_global >= 0
                   THEN neighbour_global
                   ELSE WrappingSub(neighbour_global, CHUNK_SIZE_I32 - 1)
      neighbour_c == TruncDiv(shifted, CHUNK_SIZE_I32)
      back == WrappingMul(neighbour_c, CHUNK_SIZE_I32)
  IN  [chunk |-> neighbour_c,
       local |-> WrappingSub(neighbour_global, back),
       overflow |->
         \/ MulOverflows(c, CHUNK_SIZE_I32)
         \/ AddOverflows(base, l)
         \/ AddOverflows(global, d)
         \/ (neighbour_global < 0 /\ SubOverflows(neighbour_global, CHUNK_SIZE_I32 - 1))
         \/ MulOverflows(neighbour_c, CHUNK_SIZE_I32)
         \/ SubOverflows(neighbour_global, back)]

\* one iteration of the loop over OFFSETS in check_neighbours, in i32:
\*   overflow  an operation left the i32 range
\*   outside   the index computed for a chunk of the map is not one of its cells
\*   alive     the neighbour is counted
ResolveNeighbour(m, cx, cy, idx, o) ==
  LET rx == ResolveAxis(cx, CellX(idx), OFFSETS[o][1])
      ry == ResolveAxis(cy, CellY(idx), OFFSETS[o][2])
      row == WrappingMul(ry.local, CHUNK_SIZE_I32)
      n_idx == WrappingAdd(row, rx.local)
      present == <<rx.chunk, ry.chunk>> \in DOMAIN m
  IN  [overflow |-> \/ rx.overflow
                    \/ ry.overflow
                    \/ (present /\ (MulOverflows(ry.local, CHUNK_SIZE_I32)
                                      \/ AddOverflows(row, rx.local))),
       outside |-> present /\ n_idx \notin Indices,
       alive |-> present /\ n_idx \in Indices
                   /\ m[<<rx.chunk, ry.chunk>>].cells[n_idx][1]]

\* the coordinates x + dx, y + dy of the growth check, in i32
AroundI32(x, y) ==
  [o \in 1 .. Len(OFFSETS) |->
     <<WrappingAdd(x, OFFSETS[o][1]), WrappingAdd(y, OFFSETS[o][2])>>]

GrowthOverflows(x, y) ==
  \E o \in 1 .. Len(OFFSETS) :
    AddOverflows(x, OFFSETS[o][1]) \/ AddOverflows(y, OFFSETS[o][2])

\* some i32 operation of the evaluation CheckCellAt { x, y, idx } overflows
EvaluationOverflows(m, x, y, idx) ==
  \/ m[<<x, y>>].cells[idx][1] /\ GrowthOverflows(x, y)
  \/ \E o \in 1 .. Len(OFFSETS) : ResolveNeighbour(m, x, y, idx, o).overflow

\* the CheckCellAt arm with i32 arithmetic, for a chunk of the map.  checks
\* is the build's overflow-checks setting.  An overflow with checks on, and in
\* every build an index outside the chunk's cells, is a panic that unwinds
\* main(); otherwise the arm goes on with the wrapped values.
CheckCellAtI32 ==
  /\ Draining("CheckCellAt")
  /\ <<Head(actions).x, Head(actions).y>> \in DOMAIN chunks
  /\ dispatched' = Dispatch(dispatched, Head(actions).tag)
  /\ LET a == Head(actions)
         k == <<a.x, a.y>>
         cell == chunks[k].cells[a.idx]
         around == AroundI32(a.x, a.y)
         res == [o \in 1 .. Len(OFFSETS) |-> ResolveNeighbour(chunks, a.x, a.y, a.idx, o)]
         neighbours == Cardinality({o \in 1 .. Len(OFFSETS) : res[o].alive})
     IN  \E checks \in BOOLEAN :
           IF \/ checks /\ EvaluationOverflows(chunks, a.x, a.y, a.idx)
              \/ \E o \in 1 .. Len(OFFSETS) : res[o].outside
             THEN /\ pc' = "drop"
                  /\ result' = "panic"
                  /\ actions' = Tail(actions)
                  /\ UNCHANGED <<chunks, evaluated>>
             ELSE /\ actions' =
                       IF cell[1]
                         THEN PushFrontNew(Tail(actions),
                                SelectSeq(around, LAMBDA c : c \notin DOMAIN chunks))
                         ELSE Tail(actions)
                  /\ chunks' =
                       WriteNext(chunks, k, a.idx,
                                 NextAlive(neighbours, cell[1], cell[2]))
                  /\ evaluated' = Evaluate(evaluated, k, a.idx)
                  /\ UNCHANGED <<pc, result>>
  /\ UNCHANGED <<auto, generation, vx, vy, raw, alt, caller, seed, game, keys, pre, prekeys,
                 swaps>>

\* chunk coordinates at the ends of the i32 range, at the ends of the range
\* whose cells have i32 global coordinates, and around zero
I32Samples ==
  {I32_MIN, I32_MIN \div CHUNK_SIZE_I32 - 1, I32_MIN \div CHUNK_SIZE_I32, -1, 0,
   I32_MAX \div CHUNK_SIZE_I32, I32_MAX \div CHUNK_SIZE_I32 + 1, I32_MAX}

\* the four corner cells of a chunk and one inside it
SampleCells ==
  {0, CHUNK_SIZE - 1, CHUNK_SIZE_SQR - CHUNK_SIZE, CHUNK_SIZE_SQR - 1,
   (CHUNK_SIZE + 1) * (CHUNK_SIZE \div 2)}

\* execute_actions about to evaluate one cell, alive or dead, of the one chunk
\* of the map, for a chunk coordinate drawn from I32Samples on each axis
InitI32 ==
  \E cx \in I32Samples, cy \in I32Samples, idx \in SampleCells, alive \in BOOLEAN :
    /\ chunks = [k \in {<<cx, cy>>} |-> ChunkWith(cx, cy, IF alive THEN {idx} ELSE {})]
    /\ actions = <<[tag |-> "CheckCellAt", x |-> cx, y |-> cy, idx |-> idx]>>
    /\ auto = TRUE
    /\ generation = 0
    /\ vx = 0
    /\ vy = 0
    /\ raw = TRUE
    /\ alt = TRUE
    /\ pc = "drain"
    /\ caller = "timer"
    /\ result = "none"
    /\ seed = "i32"
    /\ keys = 0
    /\ pre = {}
    /\ prekeys = {<<cx, cy>>}
    /\ dispatched = NoDispatch
    /\ evaluated = NoEvaluation
    /\ swaps = 0
    /\ game = NoGame

NextI32 ==
  \/ CheckCellAtI32
  \/ Drop

SpecI32 == InitI32 /\ [][NextI32]_vars

\* C21: coordinate resolution is total over i32 chunk coordinates: whatever
\* the chunk coordinate and the cell, the evaluation of a cell (the arithmetic
\* of check_neighbours and of the growth check) overflows in no operation and
\* does not fail.
C21_ResolutionTotal ==
  [][(Draining("CheckCellAt") /\ <<Head(actions).x, Head(actions).y>> \in DOMAIN chunks)
       => /\ ~EvaluationOverflows(chunks, Head(actions).x, Head(actions).y,
                                  Head(actions).idx)
          /\ result' # "panic"]_vars

---------------------------------------------------------------------------
(* Game::check_neighbours of main_.rs as a function of the chunk and the    *)
(* cell index                                                               *)

\* the cells main() of main_.rs sets alive
GameGliderIdx ==
  {5 + 1 * GAME_CHUNK_SIZE, 6 + 2 * GAME_CHUNK_SIZE, 4 + 3 * GAME_CHUNK_SIZE,
   5 + 3 * GAME_CHUNK_SIZE, 6 + 3 * GAME_CHUNK_SIZE}

\* the chunks check_neighbours is called on: every cell alive; the glider of
\* main(); one live cell at the end of the first row; one at the start of the
\* second row
GameChunks ==
  {0 .. GAME_CHUNK_SIZE_SQR - 1, GameGliderIdx, {GAME_CHUNK_SIZE - 1}, {GAME_CHUNK_SIZE}}

\* a call check_neighbours(&chunk, cell_idx) is about to be made, for a chunk
\* of GameChunks and any cell index of it
InitGame ==
  /\ chunks = [k \in {} |-> ChunkNew(0, 0)]
  /\ actions = << >>
  /\ auto = FALSE
  /\ generation = 0
  /\ vx = 0
  /\ vy = 0
  /\ raw = FALSE
  /\ alt = FALSE
  /\ pc = "start"
  /\ caller = "none"
  /\ result = "none"
  /\ seed = "game"
  /\ keys = 0
  /\ pre = {}
  /\ prekeys = {}
  /\ dispatched = NoDispatch
  /\ evaluated = NoEvaluation
  /\ swaps = 0
  /\ \E live \in GameChunks, cell_idx \in 0 .. GAME_CHUNK_SIZE_SQR - 1 :
       game = [pc |-> "call", live |-> live, cell_idx |-> cell_idx, neighbours |-> 0]

\* the call returns its count
GameCheckNeighbours ==
  /\ game.pc = "call"
  /\ game' = [game EXCEPT !.pc = "return",
                          !.neighbours = Game_check_neighbours(game.live, game.cell_idx)]
  /\ UNCHANGED <<chunks, actions, auto, generation, vx, vy, raw, alt, pc, caller,
                 result, seed, keys, pre, prekeys, dispatched, evaluated, swaps>>

SpecGame == InitGame /\ [][GameCheckNeighbours]_vars

\* the live cells of the chunk at (x + dx, y + dy), (dx, dy) in {-1,0,1}^2
\* minus (0,0), for the cell at index cell_idx = x + y * CHUNK_SIZE
GeometricNeighbours(live, cell_idx) ==
  LET x == cell_idx % GAME_CHUNK_SIZE
      y == cell_idx \div GAME_CHUNK_SIZE
      inside(v) == 0 <= v /\ v < GAME_CHUNK_SIZE
  IN  {i \in live : \E dx \in -1 .. 1, dy \in -1 .. 1 :
         /\ <<dx, dy>> # <<0, 0>>
         /\ inside(x + dx)
         /\ inside(y + dy)
         /\ i = (x + dx) + (y + dy) * GAME_CHUNK_SIZE}

\* C22: in main_.rs, Game::check_neighbours returns for every cell index the
\* number of live cells of the chunk that are geometrically adjacent to the
\* cell; the linear offsets of DIRECTIONS count no other cell.
C22_LinearOffsetsAdjacent ==
  game.pc = "return"
    => game.neighbours = Cardinality(GeometricNeighbours(game.live, game.cell_idx))

============================================================================
